---- MODULE Spec2Model ----
(***************************************************************************)
(* Model of app1.py: the conversation session (ConversationalBot), the     *)
(* speech synthesis + playback pipeline (generate_speech), the capture     *)
(* loop (SpeechRecognitionThread) and the GUI event loop that drives them  *)
(* (VoiceAssistantApp).                                                    *)
(***************************************************************************)
EXTENDS Integers, Sequences, FiniteSets, TLC

\* ------------------------------------------------------------------ bounds
MaxHist == 12          \* longest conversation_history explored
MaxChunks == 3         \* most chunks a spoken text is split into
MaxUtter == 2          \* utterances accepted in one run of the application
MaxToggles == 3        \* clicks on the listen button
MaxEvq == 1            \* signals queued for the GUI thread

\* ------------------------------------------------------- program constants
HistoryWindow == 10    \* conversation_history[-10:]
max_length == 200      \* characters per synthesis request
MinIntroLen == 10      \* shortest introduction that is spoken

\* --------------------------------------------------------------- messages
SystemMessage(c) == [role |-> "System", content |-> c]
HumanMessage(c) == [role |-> "User", content |-> c]
AIMessage(c) == [role |-> "Assistant", content |-> c]

system_message == SystemMessage(<<"s", "y", "s">>)

Apology == <<"d", "i", "d", "n", "t", " ", "c", "a", "t", "c", "h">>
Fallback == <<"t", "r", "o", "u", "b", "l", "e">>

\* texts a caller may hand to process_input: empty, whitespace only, plain
Texts == {<< >>, <<" ">>, <<"h", "i">>}
Responses == {<<"o", "k">>}
LLMOutcomes == [ok : BOOLEAN, content : Responses]

VARIABLES
    \* ConversationalBot
    conversation_history, messages, response, llm_invoked,
    \* generate_speech: locals, temporary files on disk, requests made, mixer
    chunks, ci, temp_files, pidx, files, synth_log, played, unlinked,
    gs_error, speech_runs,
    \* GUI thread: position, closure being run, pending timers
    mainpc, cur, timers,
    \* VoiceAssistantApp: flag, status label, conversation layout, window
    is_listening, status, display, closed,
    \* SpeechRecognitionThread: flag, position of run(), queued signals,
    \* Microphone contexts that are open
    running, lpc, evq, mic_open,
    \* counters that bound the exploration
    n_utter, n_toggles

botVars == <<conversation_history, messages, response, llm_invoked>>
speechVars == <<chunks, ci, temp_files, pidx, files, synth_log, played,
                unlinked, gs_error, speech_runs>>
mainVars == <<mainpc, cur, timers>>
guiVars == <<is_listening, status, display, closed>>
loopVars == <<running, lpc, evq, mic_open>>
cntVars == <<n_utter, n_toggles>>
\* what generate_speech and process_input never touch
appVars == <<guiVars, loopVars, cntVars>>
vars == <<botVars, speechVars, mainVars, guiVars, loopVars, cntVars>>

\* a slice that reaches one message further back than the window
LastN_OneMore(h, n) ==
    IF Len(h) <= n + 1 THEN h ELSE SubSeq(h, Len(h) - n, Len(h))

\* h[-n:] of a Python list
LastN(h, n) == IF Len(h) <= n THEN h ELSE SubSeq(h, Len(h) - n + 1, Len(h))

filtered_history(h) == <<system_message>> \o LastN(h, HistoryWindow)

isSystem(m) == m.role = "System"

\* the loop of lines 154-157 over fh, starting from the list acc
RECURSIVE DedupFrom(_, _)
DedupFrom(acc, fh) ==
    IF fh = << >> THEN acc
    ELSE LET msg == Head(fh)
         IN  IF ~(isSystem(msg) /\ Len(acc) > 0 /\ isSystem(acc[1]))
             THEN DedupFrom(Append(acc, msg), Tail(fh))
             ELSE DedupFrom(acc, Tail(fh))

\* the request without the pass that drops a repeated system message
BuildMessages_NoDedup(h) == filtered_history(h)

BuildMessages(h) == DedupFrom(<< >>, filtered_history(h))

IsFalsy(text_input) == Len(text_input) = 0

\* process_input taking the user message back when the backend fails
process_input_RollsBack(text_input, o) ==
    IF IsFalsy(text_input)
    THEN /\ response' = Apology
         /\ llm_invoked' = FALSE
         /\ UNCHANGED <<conversation_history, messages>>
    ELSE LET h1 == Append(conversation_history, HumanMessage(text_input))
         IN  /\ messages' = BuildMessages(h1)
             /\ llm_invoked' = TRUE
             /\ IF o.ok
                THEN /\ conversation_history' = Append(h1, AIMessage(o.content))
                     /\ response' = o.content
                ELSE /\ UNCHANGED conversation_history
                     /\ response' = Fallback

\* ConversationalBot.process_input(text_input), the chat backend answering o
process_input(text_input, o) ==
    IF IsFalsy(text_input)
    THEN /\ response' = Apology
         /\ llm_invoked' = FALSE
         /\ UNCHANGED <<conversation_history, messages>>
    ELSE LET h1 == Append(conversation_history, HumanMessage(text_input))
         IN  /\ messages' = BuildMessages(h1)
             /\ llm_invoked' = TRUE
             /\ IF o.ok
                THEN /\ conversation_history' = Append(h1, AIMessage(o.content))
                     /\ response' = o.content
                ELSE /\ conversation_history' = h1
                     /\ response' = Fallback

\* a clear that resets the display only
clear_history_KeepsHistory == UNCHANGED conversation_history

\* the history reset of VoiceAssistantApp.clear_conversation
clear_history == conversation_history' = <<system_message>>


\* ------------------------------------------------------- generate_speech
Placeholder ==
    <<"H", "e", "r", "e", "'", "s", " ", "t", "h", "e", " ", "c", "o", "d",
      "e", " ", "y", "o", "u", " ", "r", "e", "q", "u", "e", "s", "t", "e",
      "d", ".">>

\* the character U+0060, written by name
Backtick == "U+0060"

code_indicators ==
    << <<Backtick, Backtick, Backtick>>,
       <<"d", "e", "f", " ">>,
       <<"c", "l", "a", "s", "s", " ">>,
       <<"f", "u", "n", "c", "t", "i", "o", "n">>,
       <<"p", "u", "b", "l", "i", "c", " ", "s", "t", "a", "t", "i", "c",
         " ", "v", "o", "i", "d">>,
       <<"i", "m", "p", "o", "r", "t", " ">>,
       <<"#", "i", "n", "c", "l", "u", "d", "e">>,
       <<"p", "a", "c", "k", "a", "g", "e", " ">>,
       <<"f", "r", "o", "m", " ">> >>

Whitespace == {" ", "\n", "\t"}

\* ind occurs in text starting at position i
MatchesAt(text, i, ind) ==
    /\ i + Len(ind) - 1 <= Len(text)
    /\ SubSeq(text, i, i + Len(ind) - 1) = ind

\* the Python test: indicator in text
Contains(text, ind) == \E i \in 1..Len(text) : MatchesAt(text, i, ind)

\* a test that looks for the first indicator of the list only
contains_code_FirstOnly(text) == Contains(text, code_indicators[1])

contains_code(text) ==
    \E k \in DOMAIN code_indicators : Contains(text, code_indicators[k])

\* positions where the alternation of re.split matches
MatchPositions(text) ==
    {i \in 1..Len(text) :
        \E k \in DOMAIN code_indicators : MatchesAt(text, i, code_indicators[k])}

Min(S) == CHOOSE x \in S : \A y \in S : x <= y

\* a split at the indicator that the loop of lines 184-187 found first
SplitHead_FirstListed(text) ==
    LET found == {k \in DOMAIN code_indicators :
                    Contains(text, code_indicators[k])}
    IN  IF found = {} THEN text
        ELSE LET ind == code_indicators[Min(found)]
             IN  SubSeq(text, 1,
                   Min({i \in 1..Len(text) : MatchesAt(text, i, ind)}) - 1)

\* re.split(pattern, text)[0]
SplitHead(text) ==
    IF MatchPositions(text) = {} THEN text
    ELSE SubSeq(text, 1, Min(MatchPositions(text)) - 1)

\* str.strip()
strip(t) ==
    LET keep == {i \in 1..Len(t) : t[i] \notin Whitespace}
    IN  IF keep = {} THEN << >>
        ELSE SubSeq(t, Min(keep), CHOOSE x \in keep : \A y \in keep : y <= x)

first_part(text) ==
    LET fp == strip(SplitHead(text))
    IN  IF Len(fp) = 0 \/ Len(fp) < MinIntroLen THEN Placeholder ELSE fp

text_to_speak(text) == IF contains_code(text) THEN first_part(text) ELSE text

\* a split that keeps full chunks only
Chunks_DropsTail(t, n) ==
    [k \in 1..(Len(t) \div n) |-> SubSeq(t, (k - 1) * n + 1, k * n)]

\* [t[i:i+n] for i in range(0, len(t), n)]
Chunks(t, n) ==
    [k \in 1..((Len(t) + n - 1) \div n) |->
        SubSeq(t, (k - 1) * n + 1, IF k * n < Len(t) THEN k * n ELSE Len(t))]

SynthOutcomes == {"ok", "status", "raise"}
AudioOutcomes == {"ok", "raise"}

\* the name NamedTemporaryFile gives the file of chunk i in this run
TempName(i) == <<speech_runs, i>>

\* lines 176-209: the early return, the speakable text, the chunks
GS_Enter ==
    /\ mainpc = "gs_enter"
    /\ IF Len(response) = 0
       THEN /\ mainpc' = "pm_status"
            /\ UNCHANGED speechVars
       ELSE /\ chunks' = Chunks(text_to_speak(response), max_length)
            /\ temp_files' = << >>
            /\ ci' = 1
            /\ pidx' = 1
            /\ synth_log' = << >>
            /\ played' = << >>
            /\ unlinked' = << >>
            /\ gs_error' = FALSE
            /\ speech_runs' = speech_runs + 1
            /\ mainpc' = IF chunks' = << >> THEN "pm_status" ELSE "gs_synth"
            /\ UNCHANGED files
    /\ UNCHANGED <<botVars, cur, timers, appVars>>

\* where the run goes once the chunk loop is over: the play loop or the end
AfterSynthLoop(tf) == IF tf = << >> THEN "pm_status" ELSE "gs_load"

\* the chunk loop leaving at the first request that is not a success
GS_Synth_StopsAtFailure(o) ==
    /\ mainpc = "gs_synth"
    /\ synth_log' = Append(synth_log, [idx |-> ci, result |-> o])
    /\ IF o = "raise"
       THEN /\ mainpc' = "gs_except"
            /\ UNCHANGED <<temp_files, files, ci>>
       ELSE /\ IF o = "ok"
               THEN /\ files' = files \cup {TempName(ci)}
                    /\ temp_files' = Append(temp_files, TempName(ci))
               ELSE UNCHANGED <<temp_files, files>>
            /\ ci' = ci + 1
            /\ mainpc' = IF ci' > Len(chunks) \/ o = "status"
                         THEN AfterSynthLoop(temp_files')
                         ELSE "gs_synth"
    /\ UNCHANGED <<chunks, pidx, played, unlinked, gs_error, speech_runs>>
    /\ UNCHANGED <<botVars, cur, timers, appVars>>

\* lines 211-227: one iteration of the chunk loop, the request ending as o
GS_Synth(o) ==
    /\ mainpc = "gs_synth"
    /\ synth_log' = Append(synth_log, [idx |-> ci, result |-> o])
    /\ IF o = "raise"
       THEN /\ mainpc' = "gs_except"
            /\ UNCHANGED <<temp_files, files, ci>>
       ELSE /\ IF o = "ok"
               THEN /\ files' = files \cup {TempName(ci)}
                    /\ temp_files' = Append(temp_files, TempName(ci))
               ELSE UNCHANGED <<temp_files, files>>
            /\ ci' = ci + 1
            /\ mainpc' = IF ci' > Len(chunks) THEN AfterSynthLoop(temp_files')
                         ELSE "gs_synth"
    /\ UNCHANGED <<chunks, pidx, played, unlinked, gs_error, speech_runs>>
    /\ UNCHANGED <<botVars, cur, timers, appVars>>

\* line 231: pygame.mixer.music.load(audio_file)
GS_Load(o) ==
    /\ mainpc = "gs_load"
    /\ mainpc' = IF o = "ok" THEN "gs_play" ELSE "gs_except"
    /\ UNCHANGED <<speechVars, botVars, cur, timers, appVars>>

\* line 232: pygame.mixer.music.play()
GS_Play(o) ==
    /\ mainpc = "gs_play"
    /\ IF o = "ok"
       THEN /\ played' = Append(played, temp_files[pidx])
            /\ mainpc' = "gs_busy"
       ELSE /\ mainpc' = "gs_except"
            /\ UNCHANGED played
    /\ UNCHANGED <<chunks, ci, temp_files, pidx, files, synth_log, unlinked,
                   gs_error, speech_runs>>
    /\ UNCHANGED <<botVars, cur, timers, appVars>>

\* lines 234-235: get_busy() turns false, the polling loop ends
GS_Busy ==
    /\ mainpc = "gs_busy"
    /\ mainpc' = "gs_unlink"
    /\ UNCHANGED <<speechVars, botVars, cur, timers, appVars>>

\* line 237: os.unlink(audio_file), then the next file or the end
GS_Unlink ==
    /\ mainpc = "gs_unlink"
    /\ files' = files \ {temp_files[pidx]}
    /\ unlinked' = Append(unlinked, temp_files[pidx])
    /\ pidx' = pidx + 1
    /\ mainpc' = IF pidx' > Len(temp_files) THEN "pm_status" ELSE "gs_load"
    /\ UNCHANGED <<chunks, ci, temp_files, synth_log, played, gs_error,
                   speech_runs>>
    /\ UNCHANGED <<botVars, cur, timers, appVars>>

\* lines 239-240: the handler of the whole try block
GS_Except ==
    /\ mainpc = "gs_except"
    /\ gs_error' = TRUE
    /\ mainpc' = "pm_status"
    /\ UNCHANGED <<chunks, ci, temp_files, pidx, files, synth_log, played,
                   unlinked, speech_runs>>
    /\ UNCHANGED <<botVars, cur, timers, appVars>>

SpeechStep ==
    \/ GS_Enter
    \/ \E o \in SynthOutcomes : GS_Synth(o)
    \/ \E o \in AudioOutcomes : GS_Load(o)
    \/ \E o \in AudioOutcomes : GS_Play(o)
    \/ GS_Busy
    \/ GS_Unlink
    \/ GS_Except

\* ------------------------------------------------- VoiceAssistantApp
Welcome == <<"H", "e", "l", "l", "o">>
Cleared == <<"C", "l", "e", "a", "r", "e", "d">>

UserEntry(t) == [who |-> "You", text |-> t]
AssistantEntry(t) == [who |-> "Assistant", text |-> t]

\* what the user may have in the input field when Send is clicked
TypedInputs == {<< >>, <<" ">>, <<"h", "i">>, <<" ", "h", "i">>}
\* what recognize_google may return
Transcripts == {<< >>, <<"h", "i">>}

StatusEvent(st) == [sig |-> "status", status |-> st, text |-> << >>]
TranscribedEvent(t) == [sig |-> "transcribed", status |-> "", text |-> t]

Closure(t, k) == [text |-> t, kind |-> k]
NoClosure == Closure(<< >>, "none")

\* an event loop that is re-entered while a handler waits
EventLoopIdle_Reentrant == ~closed

\* the GUI thread is in its event loop and the window is open
EventLoopIdle == mainpc = "idle" /\ ~closed

\* QThread.isRunning()
isRunning == lpc # "dead"

\* SpeechRecognitionThread.stop(), called on the GUI thread: the status
\* signal is delivered to update_status directly
stop ==
    /\ running' = FALSE
    /\ status' = "Stopped listening"

\* VoiceAssistantApp.toggle_listening
toggle_listening ==
    /\ EventLoopIdle
    /\ n_toggles < MaxToggles
    /\ n_toggles' = n_toggles + 1
    /\ IF ~is_listening
       THEN /\ Len(evq) < MaxEvq
            /\ is_listening' = TRUE
            /\ lpc' = IF lpc = "dead" THEN "started" ELSE lpc
            /\ UNCHANGED <<running, status, mainpc>>
       ELSE /\ is_listening' = FALSE
            /\ stop
            /\ mainpc' = "wait"
            /\ UNCHANGED lpc
    /\ UNCHANGED <<botVars, speechVars, cur, timers, display, closed, evq,
                   mic_open, n_utter>>

\* speech_thread.wait() returns once run() has returned
WaitReturns ==
    /\ mainpc = "wait"
    /\ lpc = "dead"
    /\ mainpc' = "idle"
    /\ UNCHANGED <<botVars, speechVars, cur, timers, appVars>>

\* a handler that leaves the status line as it is
process_user_input_NoThinking(text) ==
    /\ UNCHANGED status
    /\ timers' = Append(timers, Closure(text, "typed"))

\* VoiceAssistantApp.process_user_input(text)
process_user_input(text) ==
    /\ status' = "Thinking..."
    /\ timers' = Append(timers, Closure(text, "typed"))

\* VoiceAssistantApp.on_send_clicked, the input field holding raw
on_send_clicked(raw) ==
    /\ EventLoopIdle
    /\ LET user_input == strip(raw)
       IN  IF Len(user_input) > 0
           THEN /\ n_utter < MaxUtter
                /\ n_utter' = n_utter + 1
                /\ display' = Append(display, UserEntry(user_input))
                /\ process_user_input(user_input)
           ELSE UNCHANGED <<n_utter, display, status, timers>>
    /\ UNCHANGED <<botVars, speechVars, mainpc, cur, is_listening, closed,
                   loopVars, n_toggles>>

\* VoiceAssistantApp.on_transcription(text)
on_transcription(text) ==
    /\ display' = Append(display, UserEntry(text))
    /\ status' = "Thinking..."
    /\ timers' = Append(timers, Closure(text, "voice"))

\* VoiceAssistantApp.update_status(text)
update_status(text) == status' = text

\* the event loop delivers the oldest signal queued by the capture thread
DeliverSignal ==
    /\ EventLoopIdle
    /\ evq # << >>
    /\ evq' = Tail(evq)
    /\ IF Head(evq).sig = "transcribed"
       THEN on_transcription(Head(evq).text)
       ELSE /\ update_status(Head(evq).status)
            /\ UNCHANGED <<display, timers>>
    /\ UNCHANGED <<botVars, speechVars, mainpc, cur, is_listening, closed,
                   running, lpc, mic_open, cntVars>>

\* a QTimer.singleShot(100, process_message) fires: the event loop of the
\* thread that set the timer calls the closure
TimerFires ==
    /\ EventLoopIdle
    /\ timers # << >>
    /\ cur' = Head(timers)
    /\ timers' = Tail(timers)
    /\ mainpc' = "pm_reply"
    /\ UNCHANGED <<botVars, speechVars, appVars>>

\* process_input up to the call of the chat backend (lines 143-160)
process_input_call(text_input) ==
    IF IsFalsy(text_input)
    THEN /\ response' = Apology
         /\ llm_invoked' = FALSE
         /\ UNCHANGED <<conversation_history, messages>>
    ELSE /\ conversation_history'
                = Append(conversation_history, HumanMessage(text_input))
         /\ messages' = BuildMessages(conversation_history')
         /\ llm_invoked' = TRUE
         /\ UNCHANGED response

\* process_input from the return of the chat backend (lines 160-172)
process_input_return(o) ==
    /\ IF o.ok
       THEN /\ conversation_history'
                    = Append(conversation_history, AIMessage(o.content))
            /\ response' = o.content
       ELSE /\ UNCHANGED conversation_history
            /\ response' = Fallback
    /\ UNCHANGED <<messages, llm_invoked>>

\* process_message: self.bot.process_input(text) is called and either
\* returns the apology or blocks in llm.invoke
PM_Reply ==
    /\ mainpc = "pm_reply"
    /\ process_input_call(cur.text)
    /\ mainpc' = IF IsFalsy(cur.text) THEN "pm_display" ELSE "pm_invoke"
    /\ UNCHANGED <<speechVars, cur, timers, appVars>>

\* process_message: llm.invoke returns a reply of the set R or raises,
\* process_input returns
PM_Invoke(R) ==
    /\ mainpc = "pm_invoke"
    /\ \E o \in [ok : BOOLEAN, content : R] : process_input_return(o)
    /\ mainpc' = "pm_display"
    /\ UNCHANGED <<speechVars, cur, timers, appVars>>

\* process_message: self.add_assistant_message(response)
PM_Display ==
    /\ mainpc = "pm_display"
    /\ display' = Append(display, AssistantEntry(response))
    /\ mainpc' = "gs_enter"
    /\ UNCHANGED <<botVars, speechVars, cur, timers, is_listening, status,
                   closed, loopVars, cntVars>>

\* the status process_message sets after generate_speech has returned
PostReplyStatus(kind, listening) ==
    IF kind = "voice" THEN "Listening..."
    ELSE IF listening THEN "Listening..." ELSE "Ready"

\* the locals of process_input and generate_speech and the record of the
\* run end with the closure
RunRecordDropped ==
    /\ chunks' = << >>
    /\ ci' = 1
    /\ temp_files' = << >>
    /\ pidx' = 1
    /\ synth_log' = << >>
    /\ played' = << >>
    /\ unlinked' = << >>
    /\ gs_error' = FALSE
    /\ messages' = << >>
    /\ response' = << >>
    /\ llm_invoked' = FALSE

\* process_message: the final update_status, the closure returns
PM_Status ==
    /\ mainpc = "pm_status"
    /\ cur # NoClosure
    /\ update_status(PostReplyStatus(cur.kind, is_listening))
    /\ mainpc' = "idle"
    /\ cur' = NoClosure
    /\ RunRecordDropped
    /\ UNCHANGED <<conversation_history, files, speech_runs, timers,
                   is_listening, display, closed, loopVars, cntVars>>

\* VoiceAssistantApp.clear_conversation
clear_conversation ==
    /\ EventLoopIdle
    /\ display' = <<AssistantEntry(Cleared)>>
    /\ clear_history
    /\ UNCHANGED <<messages, response, llm_invoked, speechVars, mainVars,
                   is_listening, status, closed, loopVars, cntVars>>

\* VoiceAssistantApp.closeEvent
closeEvent ==
    /\ EventLoopIdle
    /\ IF isRunning
       THEN /\ stop
            /\ mainpc' = "wait_close"
            /\ UNCHANGED closed
       ELSE /\ closed' = TRUE
            /\ UNCHANGED <<running, status, mainpc>>
    /\ UNCHANGED <<botVars, speechVars, cur, timers, is_listening, display,
                   lpc, evq, mic_open, cntVars>>

\* closeEvent: wait() returns, event.accept()
CloseWaitReturns ==
    /\ mainpc = "wait_close"
    /\ lpc = "dead"
    /\ mainpc' = "idle"
    /\ closed' = TRUE
    /\ UNCHANGED <<botVars, speechVars, cur, timers, is_listening, status,
                   display, loopVars, cntVars>>

\* --------------------------------------------- SpeechRecognitionThread.run
\* a signal emitted on the capture thread is queued for the GUI thread; a
\* run of the loop starts with room in the queue, and a cycle that finds the
\* queue full ends without a signal
emit(ev) ==
    /\ Len(evq) < MaxEvq
    /\ evq' = Append(evq, ev)

\* line 86
L_SetRunning ==
    /\ lpc = "started"
    /\ running' = TRUE
    /\ lpc' = "emit_listening"
    /\ UNCHANGED <<botVars, speechVars, mainVars, guiVars, evq, mic_open,
                   cntVars>>

\* line 87
L_EmitListening ==
    /\ lpc = "emit_listening"
    /\ emit(StatusEvent("Listening..."))
    /\ lpc' = "check"
    /\ UNCHANGED <<botVars, speechVars, mainVars, guiVars, running, mic_open,
                   cntVars>>

\* line 89: while self.running; line 92: the Microphone context is entered
L_Check ==
    /\ lpc = "check"
    /\ IF running
       THEN /\ lpc' = "capture"
            /\ mic_open' = mic_open + 1
       ELSE /\ lpc' = "dead"
            /\ UNCHANGED mic_open
    /\ UNCHANGED <<botVars, speechVars, mainVars, guiVars, running, evq,
                   cntVars>>

CaptureOutcomes == {"audio", "fault"}
RecognizeOutcomes == {"text", "unknown", "request_error", "fault"}

\* a capture that leaves the device open when listen() raises
L_Capture_LeavesMicOpen(o) ==
    /\ lpc = "capture"
    /\ IF o = "audio"
       THEN /\ lpc' = "recognize"
            /\ mic_open' = mic_open - 1
            /\ UNCHANGED evq
       ELSE /\ emit(StatusEvent("Error listening"))
            /\ lpc' = "backoff"
            /\ UNCHANGED mic_open
    /\ UNCHANGED <<botVars, speechVars, mainVars, guiVars, running, cntVars>>

\* lines 92-96: the microphone is open, listen() returns or raises; the
\* with block closes the device either way
L_Capture(o) ==
    /\ lpc = "capture"
    /\ mic_open' = mic_open - 1
    /\ IF o = "audio"
       THEN /\ lpc' = "recognize"
            /\ UNCHANGED evq
       ELSE /\ emit(StatusEvent("Error listening"))
            /\ lpc' = "backoff"
    /\ UNCHANGED <<botVars, speechVars, mainVars, guiVars, running, cntVars>>

\* a loop without the handler of line 106: a service error is caught by the
\* handler of line 109 like any other exception
L_Recognize_NoRequestErrorHandler(o, t) ==
    /\ lpc = "recognize"
    /\ IF o = "text"
       THEN /\ lpc' = "check"
            /\ IF Len(t) > 0
               THEN /\ n_utter < MaxUtter
                    /\ n_utter' = n_utter + 1
                    /\ emit(TranscribedEvent(t))
               ELSE UNCHANGED <<evq, n_utter>>
       ELSE /\ UNCHANGED n_utter
            /\ IF o = "unknown"
               THEN /\ emit(StatusEvent("Could not understand audio"))
                    /\ lpc' = "check"
               ELSE /\ emit(StatusEvent("Error listening"))
                    /\ lpc' = "backoff"
    /\ UNCHANGED <<botVars, speechVars, mainVars, guiVars, running, mic_open,
                   n_toggles>>

\* lines 98-110: recognize_google returns t or raises
L_Recognize(o, t) ==
    /\ lpc = "recognize"
    /\ IF o = "text"
       THEN /\ lpc' = "check"
            /\ IF Len(t) > 0
               THEN /\ n_utter < MaxUtter
                    /\ n_utter' = n_utter + 1
                    /\ emit(TranscribedEvent(t))
               ELSE UNCHANGED <<evq, n_utter>>
       ELSE /\ UNCHANGED n_utter
            /\ IF o = "unknown"
               THEN /\ emit(StatusEvent("Could not understand audio"))
                    /\ lpc' = "check"
               ELSE IF o = "request_error"
               THEN /\ emit(StatusEvent("Recognition error"))
                    /\ lpc' = "check"
               ELSE /\ emit(StatusEvent("Error listening"))
                    /\ lpc' = "backoff"
    /\ UNCHANGED <<botVars, speechVars, mainVars, guiVars, running, mic_open,
                   n_toggles>>

\* line 111: time.sleep(2) is over
L_Backoff ==
    /\ lpc = "backoff"
    /\ lpc' = "check"
    /\ UNCHANGED <<botVars, speechVars, mainVars, guiVars, running, evq,
                   mic_open, cntVars>>

\* ------------------------------------------------------------------ states
SpeechInit0 ==
    /\ chunks = << >>
    /\ ci = 1
    /\ temp_files = << >>
    /\ pidx = 1
    /\ files = {}
    /\ synth_log = << >>
    /\ played = << >>
    /\ unlinked = << >>
    /\ gs_error = FALSE
    /\ speech_runs = 0

BotInit ==
    /\ conversation_history = <<system_message>>
    /\ messages = << >>
    /\ response = << >>
    /\ llm_invoked = FALSE

MainInit ==
    /\ mainpc = "idle"
    /\ cur = NoClosure
    /\ timers = << >>

GuiInit ==
    /\ is_listening = FALSE
    /\ status = "Ready"
    /\ display = <<AssistantEntry(Welcome)>>
    /\ closed = FALSE
    /\ running = FALSE
    /\ lpc = "dead"
    /\ evq = << >>
    /\ mic_open = 0
    /\ n_utter = 0
    /\ n_toggles = 0

\* VoiceAssistantApp.__init__
AppInit == BotInit /\ SpeechInit0 /\ MainInit /\ GuiInit

\* ----------------------------------------------- the whole application
AppNext ==
    \/ toggle_listening
    \/ WaitReturns
    \/ \E raw \in TypedInputs : on_send_clicked(raw)
    \/ DeliverSignal
    \/ TimerFires
    \/ PM_Reply
    \/ PM_Invoke(Responses)
    \/ PM_Display
    \/ SpeechStep
    \/ PM_Status
    \/ clear_conversation
    \/ closeEvent
    \/ CloseWaitReturns
    \/ L_SetRunning
    \/ L_EmitListening
    \/ L_Check
    \/ \E o \in CaptureOutcomes : L_Capture(o)
    \/ \E o \in RecognizeOutcomes : \E t \in Transcripts : L_Recognize(o, t)
    \/ L_Backoff

SpecApp == AppInit /\ [][AppNext]_vars

\* the application driven by voice alone: the listen button, the capture
\* thread, the handling of what it transcribes, the closing of the window
ListenNext ==
    \/ toggle_listening
    \/ WaitReturns
    \/ DeliverSignal
    \/ TimerFires
    \/ PM_Reply
    \/ PM_Invoke(Responses)
    \/ PM_Display
    \/ SpeechStep
    \/ PM_Status
    \/ closeEvent
    \/ CloseWaitReturns
    \/ L_SetRunning
    \/ L_EmitListening
    \/ L_Check
    \/ \E o \in CaptureOutcomes : L_Capture(o)
    \/ \E o \in RecognizeOutcomes : \E t \in Transcripts : L_Recognize(o, t)
    \/ L_Backoff

SpecListen == AppInit /\ [][ListenNext]_vars

\* what the GUI thread does once its event loop has taken an event
GuiThreadStep ==
    \/ WaitReturns
    \/ CloseWaitReturns
    \/ PM_Reply
    \/ PM_Invoke(Responses)
    \/ PM_Display
    \/ SpeechStep
    \/ PM_Status

\* the steps of run() on the capture thread
LoopThreadStep ==
    \/ L_SetRunning
    \/ L_EmitListening
    \/ L_Check
    \/ \E o \in CaptureOutcomes : L_Capture(o)
    \/ \E o \in RecognizeOutcomes : \E t \in Transcripts : L_Recognize(o, t)
    \/ L_Backoff

\* both threads are scheduled, every blocking call returns or raises, and
\* the event loop serves due timers and queued signals
FairSpecApp ==
    /\ SpecApp
    /\ WF_vars(GuiThreadStep)
    /\ WF_vars(TimerFires)
    /\ WF_vars(DeliverSignal)
    /\ WF_vars(LoopThreadStep)

\* ------------------------------------- the session driven call by call
SessionReply ==
    /\ Len(conversation_history) < MaxHist
    /\ \E t \in Texts : \E o \in LLMOutcomes : process_input(t, o)
    /\ UNCHANGED <<speechVars, mainVars, appVars>>

SessionNext == SessionReply \/ clear_conversation

SpecSession == AppInit /\ [][SessionNext]_vars

\* ------------------------------ generate_speech run on one reply text
Rep(c, n) == [i \in 1..n |-> c]

SpeechLens ==
    {0, 1} \cup {k * max_length : k \in 1..MaxChunks}
           \cup {k * max_length + 1 : k \in 1..(MaxChunks - 1)}

\* an introduction and a fenced block
IntroThenFence ==
    <<"S", "u", "r", "e", ",", " ", "h", "e", "r", "e", ":", "\n", Backtick,
      Backtick, Backtick, "p", "y", "t", "h", "o", "n", "\n", "p", "r", "i",
      "n", "t", "(", "1", ")", "\n", Backtick, Backtick, Backtick>>

\* code with nothing before it
FenceOnly ==
    <<Backtick, Backtick, Backtick, "x", Backtick, Backtick, Backtick>>

\* only white space before the code
BlankThenCode ==
    <<" ", " ", "\n", "f", "u", "n", "c", "t", "i", "o", "n", " ", "f", "(",
      ")">>

\* four characters before the code
ShortIntro ==
    <<"S", "e", "e", ":", " ", "d", "e", "f", " ", "f">>

\* nine characters before the code
NineIntro ==
    <<"0", "1", "2", "3", "4", "5", "6", "7", "8", " ", "i", "m", "p", "o",
      "r", "t", " ", "x">>

\* ten characters before the code
TenIntro ==
    <<"0", "1", "2", "3", "4", "5", "6", "7", "8", "9", " ", "d", "e", "f",
      " ", "x">>

\* the indicator found first by the loop of lines 184-187 occurs later
\* in the text than another one
TwoIndicators ==
    <<"U", "s", "e", " ", "t", "h", "i", "s", " ", "c", "o", "d", "e", ":",
      " ", "f", "r", "o", "m", " ", "a", " ", "i", "m", "p", "o", "r", "t",
      " ", "b">>

\* white space on both sides of the introduction
PaddedIntro ==
    <<" ", " ", "A", "n", " ", "e", "x", "a", "m", "p", "l", "e", " ", "f",
      "o", "l", "l", "o", "w", "s", " ", "\n", " ", "c", "l", "a", "s", "s",
      " ", "A">>

\* an indicator word without its trailing space, then a real indicator
NearMiss ==
    <<"C", "a", "l", "l", " ", "t", "h", "e", " ", "d", "e", "f", ",", " ",
      "t", "h", "e", "n", " ", "i", "m", "p", "o", "r", "t", " ", "x">>

\* a text of n characters in which neighbours differ
Letters == <<"a", "b", "c", " ", "e", "g", "h">>
Cyc(n) == [i \in 1..n |-> Letters[((i - 1) % Len(Letters)) + 1]]

\* replies that hold code
CodeTexts ==
    {IntroThenFence, FenceOnly, BlankThenCode, ShortIntro, NineIntro,
     TenIntro, TwoIndicators, PaddedIntro, NearMiss,
     Cyc(max_length + 1) \o <<" ">> \o FenceOnly}

SpeechTexts ==
    {Rep("a", n) : n \in SpeechLens} \cup {Cyc(n) : n \in SpeechLens}
        \cup CodeTexts

SpeechInit ==
    /\ conversation_history = <<system_message>>
    /\ messages = << >>
    /\ llm_invoked = FALSE
    /\ response \in SpeechTexts
    /\ SpeechInit0
    /\ mainpc = "gs_enter"
    /\ cur = NoClosure
    /\ timers = << >>
    /\ GuiInit

SpecSpeech == SpeechInit /\ [][SpeechStep]_vars

\* ------------- the GUI thread alone: utterances typed or transcribed, the
\* conversation cleared
\* the slot on_transcription is called for a transcribed signal that the
\* event loop has taken from its queue
SignalDelivered(t) ==
    /\ EventLoopIdle
    /\ n_utter < MaxUtter
    /\ n_utter' = n_utter + 1
    /\ on_transcription(t)
    /\ UNCHANGED <<botVars, speechVars, mainpc, cur, is_listening, closed,
                   loopVars, n_toggles>>

UtterancesNext ==
    \/ \E raw \in TypedInputs : on_send_clicked(raw)
    \/ \E t \in Transcripts \ {<< >>} : SignalDelivered(t)
    \/ clear_conversation
    \/ TimerFires
    \/ PM_Reply
    \/ PM_Invoke(Responses)
    \/ PM_Display
    \/ SpeechStep
    \/ PM_Status

SpecUtterances == AppInit /\ [][UtterancesNext]_vars

\* ------------------- typed utterances handled one after the other, the
\* capture thread never started, the backend giving short and long replies
HandlingReplies == {<<"o", "k">>, TwoIndicators, Cyc(max_length + 1)}

HandlingNext ==
    \/ \E raw \in TypedInputs : on_send_clicked(raw)
    \/ TimerFires
    \/ PM_Reply
    \/ PM_Invoke(HandlingReplies)
    \/ PM_Display
    \/ SpeechStep
    \/ PM_Status

SpecHandling == AppInit /\ [][HandlingNext]_vars

\* ================================================================ claims
UACount(h) ==
    Cardinality({i \in DOMAIN h : h[i].role \in {"User", "Assistant"}})

SystemCount(h) == Cardinality({i \in DOMAIN h : isSystem(h[i])})

\* str.strip() leaves nothing of t
IsBlank(t) == \A i \in DOMAIN t : t[i] \in Whitespace

\* generate_speech has returned to process_message
RunOver == mainpc = "pm_status"

RECURSIVE OkFilesOf(_)
\* the files of the requests that succeeded, in the order of the requests
OkFilesOf(log) ==
    IF log = << >> THEN << >>
    ELSE IF Head(log).result = "ok"
         THEN <<TempName(Head(log).idx)>> \o OkFilesOf(Tail(log))
         ELSE OkFilesOf(Tail(log))

\* the GUI thread is blocked in speech_thread.wait(): stop() has been called
\* and has emitted its status
StopCalled == mainpc \in {"wait", "wait_close"}

\* C1: once Stop() has been called while the capture loop is inside a
\* cycle, and the Stopped status has been emitted, the loop emits no further
\* transcript or status signal.
C1_NoSignalAfterStopped ==
    [][(StopCalled /\ ~running /\ status = "Stopped listening"
            /\ lpc \in {"capture", "recognize", "backoff"})
        => evq' = evq]_vars

\* C2: once Stop() has been called, the loop passes its cancellation check
\* into a new capture cycle no more, whatever the interleaving.
C2_NoCycleStartsAfterStop ==
    [][~(StopCalled /\ lpc = "check" /\ lpc' = "capture")]_vars

\* C3: when a run of generate_speech ends, every temporary file it created
\* has been deleted exactly once and none remains, whatever faults occurred.
C3_TempFilesDeleted ==
    RunOver => (files = {} /\ unlinked = OkFilesOf(synth_log))

\* C4: a process_input call with non-empty text grows history by exactly the
\* User and the Assistant message when the backend succeeds, the returned
\* text being the Assistant content, and by exactly the User message when it
\* fails, the fixed fallback being returned.
C4_HistoryGrowth ==
    [][\A t \in Texts : \A o \in LLMOutcomes :
        (Len(t) > 0 /\ process_input(t, o)) =>
            IF o.ok
            THEN /\ UACount(conversation_history')
                        = UACount(conversation_history) + 2
                 /\ conversation_history'
                        = conversation_history
                            \o <<HumanMessage(t), AIMessage(response')>>
            ELSE /\ UACount(conversation_history')
                        = UACount(conversation_history) + 1
                 /\ conversation_history'
                        = Append(conversation_history, HumanMessage(t))
                 /\ response' = Fallback]_vars

\* a failed turn followed by a successful one
C4_Witness ==
    /\ \E i \in DOMAIN conversation_history :
            /\ i + 2 = Len(conversation_history)
            /\ conversation_history[i].role = "User"
            /\ conversation_history[i + 1].role = "User"
            /\ conversation_history[i + 2] = AIMessage(response)
    /\ llm_invoked

\* C5: the request handed to the chat backend holds at most N+1 = 11
\* messages, exactly one of them a System message, and that one first.
C5_RequestBounded ==
    llm_invoked =>
        /\ Len(messages) <= HistoryWindow + 1
        /\ SystemCount(messages) = 1
        /\ isSystem(messages[1])

\* a request cut to the window, from a history longer than it
C5_Witness ==
    /\ llm_invoked
    /\ Len(messages) = HistoryWindow + 1
    /\ Len(conversation_history) > HistoryWindow + 2

\* C6: process_input with empty or whitespace-only text returns the apology,
\* does not invoke the backend and leaves history as it was.
C6_BlankInputRejected ==
    [][\A t \in Texts : \A o \in LLMOutcomes :
        (IsBlank(t) /\ process_input(t, o)) =>
            /\ response' = Apology
            /\ ~llm_invoked'
            /\ UNCHANGED conversation_history]_vars

\* C7: when no request raises and no playback faults, every chunk is
\* requested once in order and the assets played are the successfully
\* synthesized chunks in chunk order.
C7_FailedChunksSkipped ==
    (RunOver /\ Len(response) > 0 /\ ~gs_error) =>
        /\ Len(synth_log) = Len(chunks)
        /\ \A k \in DOMAIN synth_log : synth_log[k].idx = k
        /\ played = OkFilesOf(synth_log)

\* chunk 2 of 3 refused, chunks 1 and 3 played
C7_Witness ==
    /\ RunOver
    /\ ~gs_error
    /\ Len(chunks) = 3
    /\ Len(synth_log) = 3
    /\ synth_log[1].result = "ok"
    /\ synth_log[2].result = "status"
    /\ synth_log[3].result = "ok"
    /\ played = <<TempName(1), TempName(3)>>

\* process_message is in its Reply, synthesis or playback step
InHandling ==
    mainpc \in {"pm_reply", "gs_synth", "gs_load", "gs_play", "gs_busy"}

\* C8: while an utterance is in its Reply, synthesis or playback step, the
\* context that accepts user input can handle a new event.
C8_InputNotBlocked == InHandling => ENABLED clear_conversation

\* C9: the status set when the handling of an utterance ends is Listening if
\* the capture loop is active and Ready otherwise.
C9_PostReplyStatus ==
    [][(mainpc = "pm_status" /\ mainpc' = "idle") =>
        status' = (IF is_listening THEN "Listening..." ELSE "Ready")]_vars

\* C10: Clear removes every User and Assistant message and keeps the system
\* message; a Clear applied to a cleared session changes nothing; the first
\* Reply after a Clear sends exactly the system message and the new user
\* message.
C10_Clear ==
    [][/\ clear_conversation =>
            /\ UACount(conversation_history') = 0
            /\ SelectSeq(conversation_history', isSystem) = <<system_message>>
            /\ display' = <<AssistantEntry(Cleared)>>
       /\ (clear_conversation /\ UACount(conversation_history) = 0
                /\ display = <<AssistantEntry(Cleared)>>) => UNCHANGED vars
       /\ \A t \in Texts : \A o \in LLMOutcomes :
            (UACount(conversation_history) = 0 /\ Len(t) > 0
                /\ process_input(t, o)) =>
                    messages' = <<system_message, HumanMessage(t)>>]_vars

\* a Reply that follows a Clear
C10_Witness ==
    /\ display = <<AssistantEntry(Cleared)>>
    /\ llm_invoked
    /\ messages = <<system_message, HumanMessage(<<"h", "i">>)>>
    /\ conversation_history
         = <<system_message, HumanMessage(<<"h", "i">>), AIMessage(response)>>

\* the User and Assistant messages of h, in the order of h
UAMessages(h) == SelectSeq(h, LAMBDA m : m.role \in {"User", "Assistant"})

\* C16: the request built by a Reply holds, after the system message, exactly
\* the last min(10, k) of the k User and Assistant messages of the history
\* (the new User message counted), oldest first, so the new User message is
\* the last message of the request; a User message left by a failed earlier
\* turn is part of it while it lies in that window.
C16_RequestWindow ==
    [][\A t \in Texts : \A o \in LLMOutcomes :
        (Len(t) > 0 /\ process_input(t, o)) =>
            LET ua == UAMessages(Append(conversation_history, HumanMessage(t)))
                k == Len(ua)
                m == IF k < HistoryWindow THEN k ELSE HistoryWindow
            IN  /\ messages'[1] = system_message
                /\ Tail(messages') = SubSeq(ua, k - m + 1, k)
                /\ messages'[Len(messages')] = HumanMessage(t)]_vars

\* a request cut to the window that holds the User message of a failed turn
\* right before the next User message
C16_Witness ==
    /\ llm_invoked
    /\ UACount(conversation_history) > HistoryWindow
    /\ Len(messages) = HistoryWindow + 1
    /\ \E i \in 2..(Len(messages) - 1) :
            messages[i].role = "User" /\ messages[i + 1].role = "User"

\* C20: the history holds User and Assistant messages only; the system
\* message is never an element of it.
C20_HistoryHoldsNoSystemMessage ==
    \A i \in DOMAIN conversation_history : ~isSystem(conversation_history[i])

\* the chunks of a run, joined in order
RECURSIVE Flatten(_)
Flatten(cs) == IF cs = << >> THEN << >> ELSE Head(cs) \o Flatten(Tail(cs))

\* generate_speech is past the split of its text
SplitDone == mainpc # "gs_enter"

\* C14: the chunks joined in order are the speakable text, every chunk has
\* between 1 and max_length characters, there are ceil(len / max_length)
\* chunks, and an empty text gives no chunks.
C14_ChunkRoundTrip ==
    SplitDone =>
        LET t == text_to_speak(response)
            n == Len(chunks)
        IN  /\ Flatten(chunks) = t
            /\ \A k \in 1..n : Len(chunks[k]) >= 1 /\ Len(chunks[k]) <= max_length
            /\ n * max_length >= Len(t)
            /\ n > 0 => (n - 1) * max_length < Len(t)
            /\ Len(t) = 0 => chunks = << >>

\* a text split into several chunks that differ, the last one shorter
C14_Witness ==
    /\ SplitDone
    /\ Len(chunks) >= 2
    /\ chunks[1] # chunks[2]
    /\ Len(chunks[Len(chunks)]) < max_length

\* pre[a+1 .. b] is pre without the white space at its two ends
IsTrimOf(pre, a, b) ==
    /\ \A i \in 1..a : pre[i] \in Whitespace
    /\ \A i \in (b + 1)..Len(pre) : pre[i] \in Whitespace
    /\ a < b => (pre[a + 1] \notin Whitespace /\ pre[b] \notin Whitespace)

\* an indicator starts at position i of t
IndicatorAt(t, i) ==
    \E k \in DOMAIN code_indicators :
        /\ i + Len(code_indicators[k]) - 1 <= Len(t)
        /\ \A j \in 1..Len(code_indicators[k]) :
                t[i + j - 1] = code_indicators[k][j]

\* s is the speakable text of t as the claim describes it
IsSpeakableIntro(t, s) ==
    IF \A i \in 1..Len(t) : ~IndicatorAt(t, i)
    THEN s = t
    ELSE \E i \in 1..Len(t) :
            /\ IndicatorAt(t, i)
            /\ \A j \in 1..(i - 1) : ~IndicatorAt(t, j)
            /\ \E a \in 0..(i - 1) : \E b \in a..(i - 1) :
                    /\ IsTrimOf(SubSeq(t, 1, i - 1), a, b)
                    /\ s = IF b - a < MinIntroLen THEN Placeholder
                           ELSE SubSeq(t, a + 1, b)

\* C15: a text without a code indicator is spoken unchanged; of a text with
\* one, the trimmed prefix before the earliest occurrence of any indicator
\* is spoken, or the fixed placeholder when that prefix has fewer than 10
\* characters.
C15_SpeakableIntro ==
    (SplitDone /\ Len(response) > 0) =>
        IsSpeakableIntro(response, Flatten(chunks))

\* a reply with code whose introduction is spoken
C15_Witness ==
    /\ SplitDone
    /\ contains_code(response)
    /\ Len(Flatten(chunks)) >= MinIntroLen
    /\ Flatten(chunks) \notin {Placeholder, response}

\* C17: when the request for a chunk raises, only that chunk is left out:
\* the chunks after it are still requested and the chunks synthesized are
\* played in order.
C17_RaisingChunkOmitted ==
    (RunOver /\ \E k \in DOMAIN synth_log : synth_log[k].result = "raise") =>
        /\ Len(synth_log) = Len(chunks)
        /\ played = OkFilesOf(synth_log)

\* C11: whatever the clicks on the listen button and the closing of the
\* window, at most one capture attempt has the microphone open, and a run of
\* the capture loop begins only when no cycle of an earlier run has it open.
C11_OneMicrophoneHolder ==
    /\ mic_open <= 1
    /\ lpc \in {"started", "emit_listening"} => mic_open = 0

\* listening was started, stopped and started again, and a cycle of the
\* second run of the loop has the microphone open
C11_Witness ==
    /\ n_toggles = 3
    /\ is_listening
    /\ lpc = "capture"
    /\ mic_open = 1

\* the capture loop emits the status st in this step
Emits(st) == evq' = Append(evq, StatusEvent(st))

\* C13: unintelligible audio emits the Unrecognized status and a service
\* error the RecognitionError status, each going straight to the next
\* cycle; a capture fault emits an error status and goes through the backoff
\* step to the next cycle; no outcome ends the loop: it ends only at the
\* test of the flag that stop() clears.
C13_LoopOutcomes ==
    [][/\ \A t \in Transcripts :
            /\ L_Recognize("unknown", t) => Emits("Could not understand audio")
            /\ L_Recognize("request_error", t) => Emits("Recognition error")
            /\ L_Recognize("fault", t) => Emits("Error listening")
       /\ L_Capture("fault") => Emits("Error listening")
       /\ (Emits("Could not understand audio") \/ Emits("Recognition error"))
            => lpc' = "check"
       /\ Emits("Error listening") => lpc' = "backoff"
       /\ lpc = "backoff" => lpc' \in {"backoff", "check"}
       /\ (lpc = "check" /\ running) => lpc' \in {"check", "capture"}
       /\ lpc' = "dead" => (lpc = "dead" \/ (lpc = "check" /\ ~running))]_vars

\* the cycle after a service error is under way, no stop() having been
\* called
C13_Witness ==
    /\ n_toggles = 1
    /\ running
    /\ status = "Recognition error"
    /\ lpc = "capture"

\* a closure of process_message is being run
Handling == cur # NoClosure

\* C12: whatever the order of typed and transcribed utterances, one handling
\* runs at a time: while a handling is under way no other one starts, and
\* the history changes only by the two appends of its own Reply; between
\* the append of the User message and the return of the backend nothing
\* else touches the history.
C12_OneHandlingAtATime ==
    [][/\ Handling => cur' \in {cur, NoClosure}
       /\ Handling =>
            \/ UNCHANGED conversation_history
            \/ /\ mainpc = "pm_reply"
               /\ conversation_history'
                    = Append(conversation_history, HumanMessage(cur.text))
            \/ /\ mainpc = "pm_invoke"
               /\ conversation_history'
                    = Append(conversation_history, AIMessage(response'))
       /\ mainpc = "pm_invoke" =>
            /\ conversation_history[Len(conversation_history)]
                    = HumanMessage(cur.text)
            /\ ~ENABLED clear_conversation
            /\ ~ENABLED TimerFires]_vars

\* the backend is answering a typed utterance while the closure of a
\* transcribed one is due
C12_Witness ==
    /\ mainpc = "pm_invoke"
    /\ cur.kind = "typed"
    /\ timers # << >>
    /\ Head(timers).kind = "voice"

\* C19: in the handling of an utterance the Thinking status is set before
\* Reply is called, the reply is on the display before the first synthesis
\* request, every chunk has had its synthesis attempt before the first
\* playback, and the status after the reply is set only once the last file
\* has been played and removed.
C19_HandlingOrder ==
    [][/\ Len(timers') > Len(timers) => status' = "Thinking..."
       /\ (mainpc # "pm_reply" /\ mainpc' = "pm_reply") =>
            (timers # << >> /\ cur' = Head(timers))
       /\ (synth_log' # synth_log /\ synth_log' # << >>) =>
            display[Len(display)] = AssistantEntry(response)
       /\ (played' # played /\ played' # << >>) =>
            /\ Len(synth_log) = Len(chunks)
            /\ \A k \in DOMAIN synth_log : synth_log[k].idx = k
       /\ (Handling /\ status' # status) =>
            /\ mainpc = "pm_status"
            /\ gs_error \/ (played = temp_files /\ unlinked = temp_files)]_vars

\* a handling at its last step: the reply was displayed, its chunks were
\* all requested, the files played and removed
C19_Witness ==
    /\ mainpc = "pm_status"
    /\ status = "Thinking..."
    /\ display[Len(display)] = AssistantEntry(response)
    /\ Len(chunks) >= 2
    /\ Len(played) >= 2
    /\ played = temp_files
    /\ unlinked = temp_files

\* an utterance was accepted and its handling has not ended: its transcript
\* waits in the signal queue, its closure is due, or its closure is running
Pending ==
    \/ \E i \in DOMAIN evq : evq[i].sig = "transcribed"
    \/ timers # << >>
    \/ Handling

\* the user has closed the window or closeEvent is under way
Closing == closed \/ mainpc = "wait_close"

\* C18: every accepted utterance is handled to its end, the assistant
\* message displayed and the status after the reply set, whatever fails in
\* Reply, synthesis or playback, unless the user closes the window first.
C18_EveryUtteranceAnswered == (Pending /\ ~Closing) ~> (~Pending \/ Closing)

\* no code indicator starts anywhere in t
NoIndicatorIn(t) == \A i \in 1..Len(t) : ~IndicatorAt(t, i)

\* C21: for a reply that is not empty, the text chosen for speaking holds
\* no code indicator, and neither does any chunk requested from the
\* synthesis backend.
C21_CodeNeverSpoken ==
    (SplitDone /\ Len(response) > 0) =>
        /\ NoIndicatorIn(Flatten(chunks))
        /\ \A k \in DOMAIN chunks : NoIndicatorIn(chunks[k])

\* a reply with code whose introduction fills several chunks, each of them
\* requested from the backend
C21_Witness ==
    /\ contains_code(response)
    /\ Len(chunks) >= 2
    /\ Len(synth_log) = Len(chunks)
====
